---- MODULE Spec2Model ----
(***************************************************************************)
(* A model of clibroker (src/clibroker/clibroker.py): sessions, their      *)
(* request queues, the lazily spawned worker thread of each session, the   *)
(* subsession blocking protocol and the execution of each request kind.    *)
(*                                                                         *)
(* Every step of a thread that another thread can observe is one action:   *)
(* _commit is push / unlocked check / locked check-and-spawn, _runner is   *)
(* start / pop / execute / timed pop / locked exit, close() is clear / set.*)
(***************************************************************************)
EXTENDS Integers, Sequences, FiniteSets, TLC

\* ---------------------------------------------------------------- bounds
\* Requests committed in one behaviour, sessions constructed in one behaviour.
MaxReqs == 3
MaxSessions == 3
\* Length of the text the input stream holds when the reads are examined.
MaxLen == 4

\* ------------------------------------------------------------- constants
\* Python's None, for the _thread and subsession slots and an idle worker.
None == 0
\* The process-wide root session, _session.
Root == 1

SessionIds == 1..MaxSessions
ReqIds == 1..MaxReqs

ReadKinds == {"read", "readall", "readline"}
\* The contents the input stream starts with.
StdinInputs == {<<"a", "\n", "b">>}

\* The characters of the input texts, and every text of up to MaxLen of them.
Chars == {"a", "b", "\n"}
ReadInputs == UNION {[1..n -> Chars] : n \in 0..MaxLen}
\* ReadRequest.n of the read(n) calls; -1 stands for read(), a ReadAllRequest.
ReadSizes == {-1, 1, 2}

VARIABLES
    nsess,          \* number of Session objects constructed so far
    parent,         \* Session.parent (None for the root)
    buffer,         \* Session.buffer
    pending,        \* Session.pending.queue
    subsession,     \* Session.subsession
    thread,         \* Session._thread: None or the worker it names
    finish_event,   \* Session._finish_event.is_set()
    closing,        \* sessions with a close() call between its clear and its set
    reqs,           \* the requests constructed so far, in push order
    cpc,            \* where the _commit call of each request stands
    cfuture,        \* state of each request's cfuture
    result,         \* the value a cfuture was resolved with
    workers,        \* the worker threads started so far
    stdout, stderr, \* what the output streams received: the requests, in order
    stdin,          \* what the input stream still holds
    handles,        \* subsessions whose handle a caller holds
    callres,        \* the last __enter__ call, or close() call that raised, and its outcome
    pops,           \* history: how often each request was returned by pop
    execs,          \* history: how often execute was entered for each request
    sets,           \* history: how often each cfuture was completed
    execby,         \* history: the session whose worker executed each request
    raised,         \* history: what execute raised for each request
    discarded,      \* history: requests removed from a queue by clear()
    taken,          \* history: the text each session's refills took from the input stream
    flushed         \* history: the flush() calls that returned, as <<request, stream>>

sessvars == <<nsess, parent, buffer, pending, subsession, thread, finish_event, closing>>
reqvars == <<reqs, cpc, cfuture, result>>
iovars == <<stdout, stderr, stdin>>
histvars == <<pops, execs, sets, execby, raised, discarded, taken, flushed>>
vars == <<sessvars, reqvars, workers, iovars, handles, callres, histvars>>

\* ------------------------------------------------------------ utilities
\* utils.isempty and utils.shift (the module is not among the sources): the
\* emptiness test, and removing and returning the first element of a list.
isempty(q) == Len(q) = 0
shift(q) == [item |-> Head(q), rest |-> Tail(q)]

Min(a, b) == IF a < b THEN a ELSE b

\* Index of the first occurrence of c in s, 0 when there is none (str.index).
index(s, c) ==
    IF \E i \in 1..Len(s) : s[i] = c
    THEN CHOOSE i \in 1..Len(s) : s[i] = c /\ \A j \in 1..(i-1) : s[j] # c
    ELSE 0

\* ---------------------------------------------------------- RequestQueue
\* Mutant of push: the request is put at the front of the queue.
push_front(q, req) == <<req>> \o q

push(q, req) == Append(q, req)

\* Mutants of pop: the latest item is taken; the item is not removed.
pop_last(q) == [item |-> q[Len(q)], rest |-> SubSeq(q, 1, Len(q) - 1)]
pop_peek(q) == [item |-> Head(q), rest |-> q]

\* pop on a non-empty queue: the earliest item, and the queue without it.
pop(q) == shift(q)

\* Mutant of clear: the queue keeps its requests.
clear_keeps(q) == q

clear(q) == <<>>

\* ----------------------------------------------------------------- Init
\* The root session as its constructor leaves it, no request committed.
Constructed ==
    /\ nsess = 1
    /\ parent = [s \in SessionIds |-> None]
    /\ buffer = [s \in SessionIds |-> <<>>]
    /\ pending = [s \in SessionIds |-> <<>>]
    /\ subsession = [s \in SessionIds |-> None]
    /\ thread = [s \in SessionIds |-> None]
    /\ finish_event = [s \in SessionIds |-> FALSE]
    /\ closing = {}
    /\ reqs = <<>>
    /\ cpc = <<>>
    /\ cfuture = <<>>
    /\ result = <<>>
    /\ workers = <<>>
    /\ stdout = <<>>
    /\ stderr = <<>>
    /\ handles = {}
    /\ callres = [op |-> "none", sid |-> None, res |-> "none"]
    /\ pops = <<>>
    /\ execs = <<>>
    /\ sets = <<>>
    /\ execby = <<>>
    /\ raised = <<>>
    /\ discarded = {}
    /\ taken = [s \in SessionIds |-> <<>>]
    /\ flushed = {}

Init == Constructed /\ stdin \in StdinInputs

\* The same with any text of up to MaxLen characters on the input stream.
ReadInit == Constructed /\ stdin \in ReadInputs

\* The sessions a caller can call: the root, and the subsessions it was handed.
Callable == {Root} \cup handles

\* --------------------------------------------------------------- streams
\* Mutant of readline: the whole stream is taken, not one line of it.
readline_all(stream) == [line |-> stream, rest |-> <<>>]

\* The readline of the input stream (SimStdin.readline): the text up to and
\* including the first newline, or all of it when it holds none.
readline(stream) ==
    LET idx == index(stream, "\n")
    IN  IF idx = 0
        THEN [line |-> stream, rest |-> <<>>]
        ELSE [line |-> SubSeq(stream, 1, idx), rest |-> SubSeq(stream, idx + 1, Len(stream))]

\* Session.autoflush: True for the root (line 246), inherited by every child.
autoflush(s) == TRUE

\* ------------------------------------------------------------- requests
\* A request as its constructor leaves it (BaseRequest and its subclasses).
\* n: ReadRequest.n; err, autoflush: WriteRequest.err, WriteRequest.autoflush;
\* fo, fe: FlushRequest.flush_stdout, flush_stderr; sub: SessionRequest.subsession.
Request(kind, s, n, err, fo, fe, sub) ==
    [kind |-> kind, sid |-> s, n |-> n, err |-> err, autoflush |-> autoflush(s),
     fo |-> fo, fe |-> fe, sub |-> sub]

\* Session._commit, line 68: the request is pushed; the caller then stands
\* before the unlocked check of the thread slot.
Commit(s, req) ==
    /\ s \in Callable
    /\ Len(reqs) < MaxReqs
    /\ reqs' = Append(reqs, req)
    /\ pending' = [pending EXCEPT ![s] = push(@, Len(reqs) + 1)]
    /\ cpc' = Append(cpc, "check")
    /\ cfuture' = Append(cfuture, "pending")
    /\ result' = Append(result, <<>>)
    /\ pops' = Append(pops, 0)
    /\ execs' = Append(execs, 0)
    /\ sets' = Append(sets, 0)
    /\ execby' = Append(execby, None)
    /\ raised' = Append(raised, "none")
    /\ UNCHANGED <<buffer, subsession, thread, finish_event, closing>>
    /\ UNCHANGED <<workers, iovars, handles, callres, discarded, taken, flushed>>

\* Session.read: a negative n is a ReadAllRequest.
Read(s, n) ==
    /\ Commit(s, IF n < 0
                 THEN Request("readall", s, 0, FALSE, FALSE, FALSE, None)
                 ELSE Request("read", s, n, FALSE, FALSE, FALSE, None))
    /\ UNCHANGED <<nsess, parent>>

Readline(s) ==
    /\ Commit(s, Request("readline", s, 0, FALSE, FALSE, FALSE, None))
    /\ UNCHANGED <<nsess, parent>>

Password(s) ==
    /\ Commit(s, Request("password", s, 0, FALSE, FALSE, FALSE, None))
    /\ UNCHANGED <<nsess, parent>>

\* Session.write and Session.writeline: they differ in the message only.
Write(s, err) ==
    /\ Commit(s, Request("write", s, 0, err, FALSE, FALSE, None))
    /\ UNCHANGED <<nsess, parent>>

Flush(s, fo, fe) ==
    /\ Commit(s, Request("flush", s, 0, FALSE, fo, fe, None))
    /\ UNCHANGED <<nsess, parent>>

\* Session.session: the child Session is constructed by the caller, with the
\* called session as its parent, and travels in the SessionRequest.
OpenSubsession(s) ==
    /\ nsess < MaxSessions
    /\ Commit(s, Request("session", s, 0, FALSE, FALSE, FALSE, nsess + 1))
    /\ nsess' = nsess + 1
    /\ parent' = [parent EXCEPT ![nsess + 1] = s]

\* Session._commit, line 69: the unlocked look at the thread slot.
CommitCheck(r) ==
    /\ r \in 1..Len(reqs)
    /\ cpc[r] = "check"
    /\ cpc' = [cpc EXCEPT ![r] = IF thread[reqs[r].sid] # None THEN "done" ELSE "lock"]
    /\ UNCHANGED <<sessvars, reqs, cfuture, result, workers, iovars, handles, callres, histvars>>

\* Mutant of Spawns: the slot is not looked at again under the lock.
Spawns_unchecked(s) == TRUE

\* What the locked part of _commit does to the thread slot, lines 70-73: a
\* worker is started only when the slot is (still) empty.
Spawns(s) == thread[s] = None

\* Session._commit, lines 70-73, under _threadlock.
CommitLocked(r) ==
    /\ r \in 1..Len(reqs)
    /\ cpc[r] = "lock"
    /\ cpc' = [cpc EXCEPT ![r] = "done"]
    /\ IF Spawns(reqs[r].sid)
       THEN /\ workers' = Append(workers, [sid |-> reqs[r].sid, pc |-> "start", req |-> None])
            /\ thread' = [thread EXCEPT ![reqs[r].sid] = Len(workers) + 1]
       ELSE UNCHANGED <<workers, thread>>
    /\ UNCHANGED <<nsess, parent, buffer, pending, subsession, finish_event, closing>>
    /\ UNCHANGED <<reqs, cfuture, result, iovars, handles, callres, histvars>>

\* ------------------------------------------------------- request bodies
\* Mutant of ReadExecute: the result is not removed from the buffer.
ReadExecute_keeps(req, buf) ==
    [result |-> IF req.kind = "read" THEN SubSeq(buf, 1, Min(req.n, Len(buf))) ELSE buf,
     buffer |-> buf]

\* ReadRequest._execute, ReadAllRequest._execute, ReadlineRequest._execute:
\* the result and the buffer that is left.
ReadExecute(req, buf) ==
    CASE req.kind = "read" ->
            [result |-> SubSeq(buf, 1, Min(req.n, Len(buf))),
             buffer |-> SubSeq(buf, Min(req.n, Len(buf)) + 1, Len(buf))]
      [] req.kind = "readall" ->
            [result |-> buf, buffer |-> <<>>]
      [] req.kind = "readline" ->
            LET idx == index(buf, "\n")
            IN  IF idx = 0
                THEN [result |-> buf, buffer |-> <<>>]
                ELSE [result |-> SubSeq(buf, 1, idx),
                      buffer |-> SubSeq(buf, idx + 1, Len(buf))]

\* ---------------------------------------------------------------- worker
Sid(w) == workers[w].sid
Cur(w) == workers[w].req
At(w, pc) == w \in 1..Len(workers) /\ workers[w].pc = pc
Goto(w, pc) == workers' = [workers EXCEPT ![w].pc = pc]

\* Session._runner, lines 78-79: the worker goes on to its queue once the
\* session has no subsession.
RunnerStart(w) ==
    /\ At(w, "start")
    /\ subsession[Sid(w)] = None
    /\ Goto(w, "pop")
    /\ UNCHANGED <<sessvars, reqvars, iovars, handles, callres, histvars>>

\* The worker takes what pop returns from a non-empty queue.
Take(w) ==
    LET p == pop(pending[Sid(w)])
    IN  /\ workers' = [workers EXCEPT ![w].pc = "exec", ![w].req = p.item]
        /\ pending' = [pending EXCEPT ![Sid(w)] = p.rest]
        /\ pops' = [pops EXCEPT ![p.item] = @ + 1]
        /\ UNCHANGED <<nsess, parent, buffer, subsession, thread, finish_event, closing>>
        /\ UNCHANGED <<reqvars, iovars, handles, callres>>
        /\ UNCHANGED <<execs, sets, execby, raised, discarded, taken, flushed>>

\* Session._runner, line 81: pop() without a timeout blocks until the queue
\* holds a request.
PopFirst(w) ==
    /\ At(w, "pop")
    /\ ~isempty(pending[Sid(w)])
    /\ Take(w)

\* Session._runner, line 84: pop(wait=0.01) finds a request.
PopNext(w) ==
    /\ At(w, "poll")
    /\ ~isempty(pending[Sid(w)])
    /\ Take(w)

\* Session._runner, line 84: pop(wait=0.01) times out on an empty queue and
\* returns None; the loop ends.
PopTimeout(w) ==
    /\ At(w, "poll")
    /\ isempty(pending[Sid(w)])
    /\ workers' = [workers EXCEPT ![w].pc = "exit", ![w].req = None]
    /\ UNCHANGED <<sessvars, reqvars, iovars, handles, callres, histvars>>

\* Session._runner, lines 86-87: under _threadlock the thread slot is cleared
\* and the thread ends.
RunnerExit(w) ==
    /\ At(w, "exit")
    /\ Goto(w, "done")
    /\ thread' = [thread EXCEPT ![Sid(w)] = None]
    /\ UNCHANGED <<nsess, parent, buffer, pending, subsession, finish_event, closing>>
    /\ UNCHANGED <<reqvars, iovars, handles, callres, histvars>>

\* execute() is entered for the worker's request.
Enter_execute(w) ==
    /\ execs' = [execs EXCEPT ![Cur(w)] = @ + 1]
    /\ execby' = [execby EXCEPT ![Cur(w)] = Sid(w)]

\* cfuture.set_result / cfuture.set_exception.
Complete(r, how, value) ==
    /\ cfuture' = [cfuture EXCEPT ![r] = how]
    /\ result' = [result EXCEPT ![r] = value]
    /\ sets' = [sets EXCEPT ![r] = @ + 1]

\* What an execute() that raises out of the worker's loop leaves behind: the
\* thread ends inside _runner, before lines 86-87, so the slot stays set.
Dies(w, what) ==
    /\ Goto(w, "dead")
    /\ raised' = [raised EXCEPT ![Cur(w)] = what]

\* BaseReadRequest.execute, lines 121-131. The refill of an empty buffer
\* (line 123) stands before the try block: a fault of stdin.readline() leaves
\* execute() and _runner. With an empty buffer and no input the refill blocks.
ExecRead(w, outcome) ==
    LET s == Sid(w)
        r == Cur(w)
        refill == isempty(buffer[s])
        rl == readline(stdin)
        buf == IF refill THEN buffer[s] \o rl.line ELSE buffer[s]
        ex == ReadExecute(reqs[r], buf)
    IN  /\ At(w, "exec")
        /\ reqs[r].kind \in ReadKinds
        /\ Enter_execute(w)
        /\ IF outcome = "fault"
           THEN /\ refill
                /\ Dies(w, "fault")
                /\ UNCHANGED <<buffer, stdin, cfuture, result, sets, taken>>
           ELSE /\ refill => ~isempty(stdin)
                /\ stdin' = IF refill THEN rl.rest ELSE stdin
                /\ taken' = IF refill THEN [taken EXCEPT ![s] = @ \o rl.line] ELSE taken
                /\ buffer' = [buffer EXCEPT ![s] = ex.buffer]
                /\ Complete(r, "resolved", ex.result)
                /\ Goto(w, "poll")
                /\ UNCHANGED raised
        /\ UNCHANGED <<nsess, parent, pending, subsession, thread, finish_event, closing>>
        /\ UNCHANGED <<reqs, cpc, stdout, stderr, handles, callres, pops, discarded, flushed>>

\* PasswordRequest.execute, lines 162-168: getpass writes the prompt to the
\* error stream and returns a line typed at the terminal.
ExecPassword(w, outcome) ==
    LET r == Cur(w)
    IN  /\ At(w, "exec")
        /\ reqs[r].kind = "password"
        /\ Enter_execute(w)
        /\ IF outcome = "fault"
           THEN /\ Complete(r, "rejected", <<>>)
                /\ raised' = [raised EXCEPT ![r] = "fault"]
                /\ UNCHANGED stderr
           ELSE /\ stderr' = Append(stderr, r)
                /\ Complete(r, "resolved", <<"p">>)
                /\ UNCHANGED raised
        /\ Goto(w, "poll")
        /\ UNCHANGED <<sessvars, reqs, cpc, stdout, stdin, handles, callres, pops, discarded, taken, flushed>>

\* WriteRequest.execute, lines 177-187: io.write, then io.flush under
\* autoflush, then set_result; a fault of either is caught and set as the
\* exception ("wfault": write raised; "ffault": flush raised after the write).
ExecWrite(w, outcome) ==
    LET r == Cur(w)
        written == outcome # "wfault"
    IN  /\ At(w, "exec")
        /\ reqs[r].kind = "write"
        /\ outcome = "ffault" => reqs[r].autoflush
        /\ Enter_execute(w)
        /\ stdout' = IF written /\ ~reqs[r].err THEN Append(stdout, r) ELSE stdout
        /\ stderr' = IF written /\ reqs[r].err THEN Append(stderr, r) ELSE stderr
        /\ flushed' = IF outcome = "ok" /\ reqs[r].autoflush
                      THEN flushed \cup {<<r, IF reqs[r].err THEN "stderr" ELSE "stdout">>}
                      ELSE flushed
        /\ IF outcome = "ok"
           THEN Complete(r, "resolved", <<>>) /\ UNCHANGED raised
           ELSE Complete(r, "rejected", <<>>) /\ raised' = [raised EXCEPT ![r] = "fault"]
        /\ Goto(w, "poll")
        /\ UNCHANGED <<sessvars, reqs, cpc, stdin, handles, callres, pops, discarded, taken>>

\* FlushRequest.execute, lines 195-206: the first statement of the try block,
\* session.get(), names a method Session does not have; the AttributeError is
\* caught and set as the exception, and no stream is flushed.
ExecFlush(w) ==
    LET r == Cur(w)
    IN  /\ At(w, "exec")
        /\ reqs[r].kind = "flush"
        /\ Enter_execute(w)
        /\ Complete(r, "rejected", <<>>)
        /\ raised' = [raised EXCEPT ![r] = "fault"]
        /\ Goto(w, "poll")
        /\ UNCHANGED <<sessvars, reqs, cpc, iovars, handles, callres, pops, discarded, taken, flushed>>

\* Mutant of Interrupt: the interrupt is caught like any other exception, set
\* as the exception of the cfuture, and the worker goes on.
Interrupt_rejects(w) ==
    /\ At(w, "exec")
    /\ reqs[Cur(w)].kind # "session"
    /\ Enter_execute(w)
    /\ Complete(Cur(w), "rejected", <<>>)
    /\ raised' = [raised EXCEPT ![Cur(w)] = "interrupt"]
    /\ Goto(w, "poll")
    /\ UNCHANGED <<sessvars, reqs, cpc, iovars, handles, callres>>
    /\ UNCHANGED <<pops, discarded, taken, flushed>>

\* "except KeyboardInterrupt: raise" in the read, password, write and flush
\* requests: an interrupt that arrives while one of them executes leaves
\* execute() and _runner; the cfuture is not completed.
Interrupt(w) ==
    /\ At(w, "exec")
    /\ reqs[Cur(w)].kind # "session"
    /\ Enter_execute(w)
    /\ Dies(w, "interrupt")
    /\ UNCHANGED <<sessvars, reqs, cpc, cfuture, result, iovars, handles, callres>>
    /\ UNCHANGED <<pops, sets, discarded, taken, flushed>>

\* Mutant of ExecSessionInstall: the child is not installed before the
\* cfuture is resolved.
ExecSessionInstall_skips(w) ==
    /\ At(w, "exec")
    /\ reqs[Cur(w)].kind = "session"
    /\ Enter_execute(w)
    /\ Goto(w, "installed")
    /\ UNCHANGED <<sessvars, reqvars, iovars, handles, callres>>
    /\ UNCHANGED <<pops, sets, raised, discarded, taken, flushed>>

\* SessionRequest.execute, line 214: the child is installed.
ExecSessionInstall(w) ==
    /\ At(w, "exec")
    /\ reqs[Cur(w)].kind = "session"
    /\ Enter_execute(w)
    /\ subsession' = [subsession EXCEPT ![Sid(w)] = reqs[Cur(w)].sub]
    /\ Goto(w, "installed")
    /\ UNCHANGED <<nsess, parent, buffer, pending, thread, finish_event, closing>>
    /\ UNCHANGED <<reqvars, iovars, handles, callres, pops, sets, raised, discarded, taken, flushed>>

\* SessionRequest.execute, line 215: the cfuture is resolved with the child;
\* from here on the caller holds the handle.
ExecSessionResolve(w) ==
    /\ At(w, "installed")
    /\ Complete(Cur(w), "resolved", <<reqs[Cur(w)].sub>>)
    /\ handles' = handles \cup {reqs[Cur(w)].sub}
    /\ Goto(w, "subwait")
    /\ UNCHANGED <<sessvars, reqs, cpc, iovars, callres, pops, execs, execby, raised, discarded, taken, flushed>>

\* Mutant of Waited: the worker does not wait for the child.
Waited_nowait(sub) == TRUE

\* Whether subsession.wait() (line 216) lets the worker go on.
Waited(sub) == finish_event[sub]

\* SessionRequest.execute, lines 216-217: wait() returns once the child's
\* _finish_event is set, and the subsession slot is cleared.
ExecSessionResume(w) ==
    /\ At(w, "subwait")
    /\ Waited(reqs[Cur(w)].sub)
    /\ subsession' = [subsession EXCEPT ![Sid(w)] = None]
    /\ Goto(w, "poll")
    /\ UNCHANGED <<nsess, parent, buffer, pending, thread, finish_event, closing>>
    /\ UNCHANGED <<reqvars, iovars, handles, callres, histvars>>

\* ------------------------------------------------- close, enter and exit
\* Mutant of IsGlobal: the root is not recognised.
IsGlobal_never(s) == FALSE

\* "self == _session" in close() and __enter__.
IsGlobal(s) == s = Root

\* Session.close, lines 94-96: on the root InvalidStateError is raised and
\* nothing else is done; on any other session the queue is cleared. (The
\* model has one close() call of a session in flight at a time.)
CloseClear(s) ==
    /\ s \in Callable
    /\ s \notin closing
    /\ IF IsGlobal(s)
       THEN /\ callres' = [op |-> "close", sid |-> s, res |-> "InvalidStateError"]
            /\ UNCHANGED <<pending, closing, discarded>>
       ELSE /\ pending' = [pending EXCEPT ![s] = clear(@)]
            /\ discarded' = discarded \cup {pending[s][i] : i \in 1..Len(pending[s])}
            /\ closing' = closing \cup {s}
            /\ UNCHANGED callres
    /\ UNCHANGED <<nsess, parent, buffer, subsession, thread, finish_event>>
    /\ UNCHANGED <<reqvars, workers, iovars, handles>>
    /\ UNCHANGED <<pops, execs, sets, execby, raised, taken, flushed>>

\* Session.close, line 97: _finish_event is set and close() returns.
CloseSet(s) ==
    /\ s \in closing
    /\ finish_event' = [finish_event EXCEPT ![s] = TRUE]
    /\ closing' = closing \ {s}
    /\ UNCHANGED <<nsess, parent, buffer, pending, subsession, thread>>
    /\ UNCHANGED <<reqvars, workers, iovars, handles, callres, histvars>>

\* Mutant of EnterResult: the parent's subsession slot is not compared.
EnterResult_root_only(s) == IF IsGlobal(s) THEN "InvalidStateError" ELSE "ok"

\* Session.__enter__, lines 103-107: what the call raises or returns.
EnterResult(s) ==
    IF IsGlobal(s) THEN "InvalidStateError"
    ELSE IF s # subsession[parent[s]] THEN "InvalidStateError"
    ELSE "ok"

\* Session.__enter__. (__exit__ is close(): CloseClear, CloseSet.)
Enter(s) ==
    /\ s \in Callable
    /\ callres' = [op |-> "enter", sid |-> s, res |-> EnterResult(s)]
    /\ UNCHANGED <<sessvars, reqvars, workers, iovars, handles, histvars>>

\* ------------------------------------------------------- specifications
Workers == 1..MaxReqs

\* Callers committing requests: write/writeline to either stream, readline,
\* session, and the two further steps of each _commit call.
Commits(errs) ==
    \/ \E s \in SessionIds, e \in errs : Write(s, e)
    \/ \E s \in SessionIds : Readline(s)
    \/ \E s \in SessionIds : OpenSubsession(s)
    \/ \E r \in ReqIds : CommitCheck(r)
    \/ \E r \in ReqIds : CommitLocked(r)

\* Callers closing the subsessions they hold.
Closes ==
    \/ \E s \in SessionIds \ {Root} : CloseClear(s)
    \/ \E s \in SessionIds : CloseSet(s)

\* The steps of worker w in which nothing raises.
WorkerRuns(w) ==
    \/ RunnerStart(w)
    \/ PopFirst(w)
    \/ PopNext(w)
    \/ PopTimeout(w)
    \/ RunnerExit(w)
    \/ ExecWrite(w, "ok")
    \/ ExecSessionInstall(w)
    \/ ExecSessionResolve(w)
    \/ ExecSessionResume(w)

\* The steps of worker w in which a stream faults or an interrupt arrives.
WorkerFails(w) ==
    \/ \E o \in {"wfault", "ffault"} : ExecWrite(w, o)
    \/ ExecRead(w, "fault")
    \/ Interrupt(w)

Next ==
    \/ Commits(BOOLEAN)
    \/ Closes
    \/ \E w \in Workers : WorkerRuns(w) \/ ExecRead(w, "ok") \/ WorkerFails(w)

\* The broker under concurrent callers, closes, stream faults and interrupts.
Spec == Init /\ [][Next]_vars

\* The synchronous calls that raise or return at once: close() on the root
\* and __enter__ on any session a caller holds.
SyncCalls ==
    \/ CloseClear(Root)
    \/ \E s \in SessionIds : Enter(s)

ApiNext ==
    \/ Commits({FALSE})
    \/ Closes
    \/ SyncCalls
    \/ \E w \in Workers : WorkerRuns(w) \/ ExecRead(w, "ok") \/ WorkerFails(w)

\* The same broker with the synchronous calls, the callers writing to the
\* output stream only.
ApiSpec == Init /\ [][ApiNext]_vars

\* The steps of worker w around execute(): _runner's loop and its exit.
RunnerSteps(w) ==
    \/ RunnerStart(w)
    \/ PopFirst(w)
    \/ PopNext(w)
    \/ PopTimeout(w)
    \/ RunnerExit(w)

\* Callers reading from the root: read(n), read(), readline(); the input
\* stream does not fault.
ReadNext ==
    \/ \E n \in ReadSizes : Read(Root, n)
    \/ Readline(Root)
    \/ \E r \in ReqIds : CommitCheck(r)
    \/ \E r \in ReqIds : CommitLocked(r)
    \/ \E w \in Workers : RunnerSteps(w) \/ ExecRead(w, "ok")

ReadSpec == ReadInit /\ [][ReadNext]_vars

\* Callers using every kind of request on the root but session(): reads,
\* password, writes to either stream, flushes of either stream; streams that
\* may fault, and interrupts.
KindsNext ==
    \/ \E n \in ReadSizes : Read(Root, n)
    \/ Readline(Root)
    \/ Password(Root)
    \/ \E e \in BOOLEAN : Write(Root, e)
    \/ \E fo, fe \in BOOLEAN : Flush(Root, fo, fe)
    \/ \E r \in ReqIds : CommitCheck(r)
    \/ \E r \in ReqIds : CommitLocked(r)
    \/ \E w \in Workers : RunnerSteps(w)
    \/ \E w \in Workers, o \in {"ok", "fault"} : ExecRead(w, o) \/ ExecPassword(w, o)
    \/ \E w \in Workers, o \in {"ok", "wfault", "ffault"} : ExecWrite(w, o)
    \/ \E w \in Workers : ExecFlush(w) \/ Interrupt(w)

KindsSpec == Init /\ [][KindsNext]_vars

\* Callers reading from the root and from subsessions, which have the root's
\* input stream and a buffer of their own, and closing the subsessions.
ShareNext ==
    \/ \E s \in SessionIds, n \in ReadSizes : Read(s, n)
    \/ \E s \in SessionIds : Readline(s)
    \/ \E s \in SessionIds : OpenSubsession(s)
    \/ \E r \in ReqIds : CommitCheck(r)
    \/ \E r \in ReqIds : CommitLocked(r)
    \/ Closes
    \/ \E w \in Workers : RunnerSteps(w) \/ ExecRead(w, "ok")
    \/ \E w \in Workers : ExecSessionInstall(w) \/ ExecSessionResolve(w) \/ ExecSessionResume(w)

ShareSpec == Init /\ [][ShareNext]_vars

\* ------------------------------------------------------------ fair runs
\* Callers that write and open subsessions, workers in which nothing raises,
\* no reads (the input stream cannot block a worker), no interrupts.
LiveNext ==
    \/ \E s \in SessionIds, e \in BOOLEAN : Write(s, e)
    \/ \E s \in SessionIds : OpenSubsession(s)
    \/ \E r \in ReqIds : CommitCheck(r)
    \/ \E r \in ReqIds : CommitLocked(r)
    \/ Closes
    \/ \E w \in Workers : WorkerRuns(w)

\* A caller closes subsession s, which it holds and which is still open.
ClosesOpen(s) == ~finish_event[s] /\ CloseClear(s)

\* Threads are scheduled fairly: a worker that can step does, a caller inside
\* _commit or close() goes on, and every open subsession is closed in the end.
LiveSpec ==
    /\ Init
    /\ [][LiveNext]_vars
    /\ WF_vars(\E w \in Workers : WorkerRuns(w))
    /\ WF_vars(\E r \in ReqIds : CommitCheck(r) \/ CommitLocked(r))
    /\ \A s \in SessionIds \ {Root} : WF_vars(ClosesOpen(s)) /\ WF_vars(CloseSet(s))

\* ================================================================ claims
Reqs == 1..Len(reqs)
WorkerIds == 1..Len(workers)
Streams == {stdout, stderr}

\* Request r is in the hands of a worker that has not left its execute().
Executing(r) ==
    \E w \in WorkerIds :
        workers[w].req = r /\ workers[w].pc \in {"exec", "installed", "subwait"}

\* execute() was entered for r and has returned.
Finished(r) == execs[r] > 0 /\ ~Executing(r) /\ raised[r] # "interrupt"
                /\ ~(\E w \in WorkerIds : workers[w].req = r /\ workers[w].pc = "dead")

\* a was pushed onto the queue of its session before b was.
Before(a, b) == a < b /\ reqs[a].sid = reqs[b].sid

\* C1: the messages of one session appear on each stream in the order in
\* which their requests were pushed, and a write is entered only when every
\* write pushed before it on the session has left the queue and its execute().
C1_WriteOrder ==
    /\ \A st \in Streams : \A i, j \in 1..Len(st) :
          (i < j /\ reqs[st[i]].sid = reqs[st[j]].sid) => st[i] < st[j]
    /\ \A a, b \in Reqs :
          (Before(a, b) /\ reqs[a].kind = "write" /\ reqs[b].kind = "write" /\ execs[b] > 0)
          => /\ ~Executing(a)
             /\ \A i \in 1..Len(pending[reqs[a].sid]) : pending[reqs[a].sid][i] # a

\* Two writes of one session are on a stream, the second one written by a
\* second worker of the session (the first worker had exited idle).
C1_Witness ==
    \E a, b \in Reqs :
        /\ Before(a, b)
        /\ \E st \in Streams : \E i, j \in 1..Len(st) : st[i] = a /\ st[j] = b
        /\ \E w1, w2 \in WorkerIds : w1 # w2 /\ workers[w1].sid = reqs[a].sid
                                      /\ workers[w2].sid = reqs[a].sid

\* The requests that are SessionRequests.
Opens == {o \in Reqs : reqs[o].kind = "session"}

\* C2 as stated: once a session request is executed, a request pushed on the
\* parent after it is entered only when the child is closed; and when the
\* child's handle is delivered, every request pushed on the parent before the
\* session request has finished executing.
C2_Original ==
    \A o \in Opens :
        /\ execs[o] > 0 =>
              \A b \in Reqs : (Before(o, b) /\ execs[b] > 0) => finish_event[reqs[o].sub]
        /\ reqs[o].sub \in handles => \A a \in Reqs : Before(a, o) => Finished(a)

\* C2 as amended: the same, the earlier requests being those that no close()
\* of the parent discarded.
C2_SubsessionPausesParent ==
    \A o \in Opens :
        /\ execs[o] > 0 =>
              \A b \in Reqs : (Before(o, b) /\ execs[b] > 0) => finish_event[reqs[o].sub]
        /\ reqs[o].sub \in handles =>
              \A a \in Reqs : (Before(a, o) /\ a \notin discarded) => Finished(a)

\* A request pushed before a session request and one pushed after it have both
\* been executed, the child having been delivered and closed in between.
C2_Witness ==
    \E o \in Opens : \E a, b \in Reqs :
        /\ Before(a, o) /\ Before(o, b)
        /\ Finished(a) /\ execs[b] > 0
        /\ reqs[o].sub \in handles /\ finish_event[reqs[o].sub]

\* C3: under fair scheduling every request committed to the root session (it
\* is never closed) has its cfuture completed in the end, no stream blocking,
\* no interrupt occurring and every subsession being closed.
C3_EveryRequestCompletes ==
    \A r \in ReqIds :
        (r \in Reqs /\ reqs[r].sid = Root) ~> (r \in Reqs /\ cfuture[r] # "pending")

\* C4: a request is returned by pop at most once, execute() is entered for it
\* at most once, its cfuture is completed at most once, and the worker that
\* executes it is a worker of the session it was committed to.
C4_AtMostOnce ==
    \A r \in Reqs :
        /\ pops[r] <= 1 /\ execs[r] <= 1 /\ sets[r] <= 1
        /\ execs[r] <= pops[r] /\ sets[r] <= execs[r]
        /\ execs[r] > 0 => execby[r] = reqs[r].sid
        /\ cfuture[r] # "pending" <=> sets[r] = 1

\* Requests of two sessions were completed, each once, while another request
\* was discarded by close().
C4_Witness ==
    /\ \E a, b \in Reqs : reqs[a].sid # reqs[b].sid /\ sets[a] = 1 /\ sets[b] = 1
    /\ discarded # {}

\* The thread of worker w has not ended.
Live(w) == workers[w].pc \notin {"done", "dead"}

\* C5: no two live workers belong to one session, and a live worker is the
\* one the session's thread slot names.
C5_OneWorker ==
    \A w1, w2 \in WorkerIds :
        /\ (w1 # w2 /\ workers[w1].sid = workers[w2].sid) => ~(Live(w1) /\ Live(w2))
        /\ Live(w1) => thread[workers[w1].sid] = w1

\* A second worker of a session is live, started by one of two callers that
\* both found the slot empty, after the first worker cleared the slot.
C5_Witness ==
    \E w1, w2 \in WorkerIds :
        /\ w1 # w2 /\ workers[w1].sid = workers[w2].sid
        /\ workers[w1].pc = "done" /\ Live(w2)
        /\ \E r \in Reqs : reqs[r].sid = workers[w2].sid /\ cpc[r] = "lock"

\* The children of s that were delivered and are not closed.
OpenChildren(s) == {c \in handles : parent[c] = s /\ ~finish_event[c]}

\* C6: a session has at most one delivered child that is not closed.
C6_OneOpenSubsession == \A s \in SessionIds : Cardinality(OpenChildren(s)) <= 1

\* A session has two delivered children, the first closed and the second open.
C6_Witness ==
    \E c1, c2 \in handles :
        /\ c1 # c2 /\ parent[c1] = parent[c2]
        /\ finish_event[c1] /\ ~finish_event[c2]

\* C7: a failure other than an interrupt that is raised while a request
\* executes is delivered as the rejection of its cfuture, and the worker goes
\* on (its thread does not end with the request).
C7_FailureIsRejection ==
    \A r \in Reqs :
        raised[r] = "fault" =>
            /\ cfuture[r] = "rejected"
            /\ ~(\E w \in WorkerIds : workers[w].req = r /\ workers[w].pc = "dead")

\* What a step leaves alone when it changes nothing but callres.
Untouched == UNCHANGED <<sessvars, reqvars, workers, iovars, handles, histvars>>

\* C8: the root is never closed or being closed, a close() of the root raises
\* InvalidStateError, and the step of that call changes nothing else.
C8_RootNeverClosed ==
    /\ [](~finish_event[Root] /\ Root \notin closing)
    /\ []((callres.op = "close" /\ callres.sid = Root) => callres.res = "InvalidStateError")
    /\ [][(callres' # callres /\ callres'.op = "close" /\ callres'.sid = Root)
            => Untouched]_vars

\* close() was called on the root while requests were queued on it.
C8_Witness ==
    /\ callres = [op |-> "close", sid |-> Root, res |-> "InvalidStateError"]
    /\ ~isempty(pending[Root])

\* C9: __enter__ raises InvalidStateError exactly when the session is the
\* root or is not its parent's subsession at that instant, returns otherwise,
\* and changes nothing either way. (A repeated call with the same outcome is a
\* stuttering step; every state is also reached with another callres.)
C9_Enter ==
    [][\A s \in SessionIds :
          (callres' # callres /\ callres'.op = "enter" /\ callres'.sid = s)
          => /\ callres'.res \in {"ok", "InvalidStateError"}
             /\ callres'.res = "InvalidStateError" <=>
                   (s = Root \/ subsession[parent[s]] # s)
             /\ Untouched]_vars

\* __enter__ failed on a subsession whose handle was delivered: it was closed
\* and its parent has cleared the slot.
C9_Witness ==
    /\ callres.op = "enter" /\ callres.sid # Root
    /\ callres.res = "InvalidStateError"
    /\ callres.sid \in handles

\* C10: a request that close() discarded is never popped or executed and its
\* cfuture stays pending; the close() call that cleared the queue sets the
\* _finish_event when it returns, and a set _finish_event stays set.
C10_CloseDiscards ==
    /\ [](\A r \in discarded : pops[r] = 0 /\ execs[r] = 0 /\ cfuture[r] = "pending")
    /\ [][\A s \in SessionIds :
            /\ (s \in closing /\ s \notin closing') => finish_event'[s]
            /\ finish_event[s] => finish_event'[s]]_vars

\* A request was discarded, its session is closed, and a request committed to
\* the session earlier was executed.
C10_Witness ==
    \E r \in discarded :
        /\ finish_event[reqs[r].sid]
        /\ \E a \in Reqs : Before(a, r) /\ Finished(a)

\* The streams the body of request r works on. Every session of the model
\* has the root's streams (Session.__init__, lines 31-35: a child constructed
\* without streams of its own takes its parent's).
Touches(r) ==
    CASE reqs[r].kind \in ReadKinds -> {"stdin"}
      [] reqs[r].kind = "password" -> {"stderr"}
      [] reqs[r].kind = "write" -> {IF reqs[r].err THEN "stderr" ELSE "stdout"}
      [] reqs[r].kind = "flush" -> {"stdout", "stderr"}
      [] OTHER -> {}

\* The thread of worker w is between the return of the pop that gave it a
\* read, password, write or flush request and the return of that request's
\* execute(): the stream access of the body falls at some instant of this
\* interval, and nothing orders it with the steps of another thread.
InBody(w) == workers[w].pc = "exec" /\ reqs[workers[w].req].kind # "session"

\* C11: no two worker threads are in request bodies that work on the same
\* stream at the same time, the workers of a parent and of its subsessions
\* included.
C11_ExclusiveStreamAccess ==
    \A w1, w2 \in WorkerIds :
        (w1 # w2 /\ InBody(w1) /\ InBody(w2))
        => Touches(workers[w1].req) \cap Touches(workers[w2].req) = {}

\* What the read requests 1..k of session s have returned, in request order.
RECURSIVE Returned(_, _)
Returned(s, k) ==
    IF k = 0 THEN <<>>
    ELSE Returned(s, k - 1) \o
         (IF reqs[k].sid = s /\ reqs[k].kind \in ReadKinds /\ cfuture[k] = "resolved"
          THEN result[k] ELSE <<>>)

\* The text a step removed from the front of the input stream.
Got == SubSeq(stdin, 1, Len(stdin) - Len(stdin'))

\* The removed text is one line of the stream: it has no newline before its
\* last character, and it ends with a newline or with the stream.
OneLine ==
    /\ Len(stdin') < Len(stdin)
    /\ stdin = Got \o stdin'
    /\ \A i \in 1..(Len(Got) - 1) : Got[i] # "\n"
    /\ Got[Len(Got)] = "\n" \/ stdin' = <<>>

\* The step that completes read request r refilled the buffer of its session
\* with one line if it was empty and left the stream alone otherwise.
Refilled(r) ==
    IF buffer[reqs[r].sid] = <<>> THEN OneLine ELSE stdin' = stdin

\* The step completes request r.
Completes(r) == r \in Reqs /\ sets'[r] = sets[r] + 1

\* C12: read(n) returns the first min(n, length) characters of the buffer as
\* it is after at most one refill (one line, taken only when the buffer is
\* empty), never more than n, and removes exactly them; what the reads of a
\* session returned, in order, followed by its buffer, is the text its
\* refills took.
C12_Read ==
    /\ [][\A r \in ReqIds :
            (Completes(r) /\ reqs[r].kind = "read") =>
                LET s == reqs[r].sid
                    avail == buffer[s] \o Got
                IN  /\ Refilled(r)
                    /\ cfuture'[r] = "resolved"
                    /\ Len(result'[r]) <= reqs[r].n
                    /\ Len(result'[r]) = IF reqs[r].n < Len(avail) THEN reqs[r].n ELSE Len(avail)
                    /\ result'[r] \o buffer'[s] = avail]_vars
    /\ [](\A s \in SessionIds : taken[s] = Returned(s, Len(reqs)) \o buffer[s])

\* With an empty buffer and "abba" on the stream, read(2) gave "ab" and the
\* next read(2) gave "ba".
C12_Witness ==
    /\ Len(reqs) >= 2
    /\ reqs[1].kind = "read" /\ reqs[1].n = 2 /\ result[1] = <<"a", "b">>
    /\ reqs[2].kind = "read" /\ reqs[2].n = 2 /\ result[2] = <<"b", "a">>
    /\ cfuture[1] = "resolved" /\ cfuture[2] = "resolved"
    /\ taken[Root] = <<"a", "b", "b", "a">>

\* C13: readline() returns the buffer, as it is after at most one refill (one
\* line of the stream, taken only when the buffer is empty), up to and
\* including its first newline and leaves the rest in the buffer; a buffer
\* without a newline is returned whole and emptied. Later lines stay in the
\* stream.
C13_Readline ==
    [][\A r \in ReqIds :
          (Completes(r) /\ reqs[r].kind = "readline") =>
              LET s == reqs[r].sid
                  avail == buffer[s] \o Got
                  nl == {i \in 1..Len(avail) : avail[i] = "\n"}
              IN  /\ Refilled(r)
                  /\ cfuture'[r] = "resolved"
                  /\ IF nl = {}
                     THEN result'[r] = avail /\ buffer'[s] = <<>>
                     ELSE \E i \in nl :
                            /\ \A j \in nl : i <= j
                            /\ result'[r] = SubSeq(avail, 1, i)
                            /\ buffer'[s] = SubSeq(avail, i + 1, Len(avail))]_vars

\* With "a\n", "\n" and "b" on the stream, readline() gave "a\n", the next
\* readline() gave "\n", and "b" is still in the stream.
C13_Witness ==
    /\ Len(reqs) >= 2
    /\ reqs[1].kind = "readline" /\ result[1] = <<"a", "\n">>
    /\ reqs[2].kind = "readline" /\ result[2] = <<"\n">>
    /\ cfuture[1] = "resolved" /\ cfuture[2] = "resolved"
    /\ stdin = <<"b">> /\ buffer[Root] = <<>>

\* C14: a flush request that was executed, no interrupt arriving, has its
\* cfuture resolved, the output stream having been flushed exactly when
\* flush_stdout is set and the error stream exactly when flush_stderr is set.
C14_Flush ==
    \A r \in Reqs :
        (reqs[r].kind = "flush" /\ execs[r] > 0 /\ ~Executing(r) /\ raised[r] # "interrupt")
        => /\ cfuture[r] = "resolved"
           /\ <<r, "stdout">> \in flushed <=> reqs[r].fo
           /\ <<r, "stderr">> \in flushed <=> reqs[r].fe

\* The thread of the worker that held request r has ended inside execute().
DiedWith(r) == \E w \in WorkerIds : workers[w].req = r /\ workers[w].pc = "dead"

\* C17: an interrupt raised while a read, password, write or flush request
\* executes ends the worker's thread and completes nothing: the cfuture of
\* the request is pending then and stays pending.
C17_InterruptPropagates ==
    /\ [](\A r \in Reqs :
            raised[r] = "interrupt" =>
                /\ reqs[r].kind # "session"
                /\ cfuture[r] = "pending" /\ sets[r] = 0
                /\ DiedWith(r))
    /\ [][\A r \in Reqs :
            raised[r] = "interrupt" => (raised'[r] = "interrupt" /\ cfuture'[r] = "pending")]_vars

\* A flush request was interrupted after an earlier request was completed; a
\* request committed after it waits in the queue.
C17_Witness ==
    \E a, r, b \in Reqs :
        /\ a < r /\ r < b
        /\ cfuture[a] = "resolved"
        /\ reqs[r].kind = "flush" /\ raised[r] = "interrupt" /\ cfuture[r] = "pending"
        /\ pending[Root] = <<b>> /\ cpc[b] = "done"

\* C15: a session request is executed as install, resolve, wait, clear. Its
\* cfuture is resolved with the child while the child is installed and not
\* closed; the slot is cleared only once the child's _finish_event is set,
\* and the worker then goes back to its queue; so a delivered child that is
\* not closed is its parent's subsession, and __enter__ on it returns.
C15_SessionRequestOrder ==
    /\ [](\A c \in handles : ~finish_event[c] => subsession[parent[c]] = c)
    /\ [][\A o \in ReqIds :
            (Completes(o) /\ reqs[o].kind = "session") =>
                /\ execs[o] = 1
                /\ subsession[reqs[o].sid] = reqs[o].sub
                /\ ~finish_event[reqs[o].sub]
                /\ cfuture'[o] = "resolved" /\ result'[o] = <<reqs[o].sub>>
                /\ reqs[o].sub \notin handles /\ reqs[o].sub \in handles']_vars
    /\ [][\A s \in SessionIds :
            (subsession[s] # None /\ subsession'[s] # subsession[s]) =>
                /\ finish_event[subsession[s]]
                /\ subsession[s] \in handles
                /\ subsession'[s] = None
                /\ \E w \in WorkerIds : workers[w].sid = s /\ workers[w].pc = "subwait"
                                          /\ workers'[w].pc = "poll"]_vars
    /\ [][\A c \in SessionIds :
            (callres' # callres /\ callres'.op = "enter" /\ callres'.sid = c
                /\ c \in handles /\ ~finish_event[c])
            => callres'.res = "ok"]_vars

\* __enter__ returned on a delivered child that is open, its parent's worker
\* waiting for it, while a request committed on the parent after the session
\* request is queued.
C15_Witness ==
    \E o \in Opens : \E b \in Reqs :
        /\ cfuture[o] = "resolved" /\ ~finish_event[reqs[o].sub]
        /\ callres = [op |-> "enter", sid |-> reqs[o].sub, res |-> "ok"]
        /\ \E w \in WorkerIds : workers[w].req = o /\ workers[w].pc = "subwait"
        /\ Before(o, b) /\ pending[reqs[o].sid] = <<b>>

\* C16: under fair scheduling, a started worker whose session's queue stays
\* empty, the session having no subsession, ends in the end, also when close()
\* emptied the queue before the worker's first pop.
C16_IdleWorkerExits ==
    \A w \in Workers :
        <>[](w \in WorkerIds /\ isempty(pending[workers[w].sid])
                /\ subsession[workers[w].sid] = None)
        => <>(w \in WorkerIds /\ workers[w].pc = "done")

\* Session d is nested beneath session p: p is its parent, or the parent of
\* a session it is nested beneath.
RECURSIVE IsBeneath(_, _)
IsBeneath(d, p) ==
    /\ parent[d] # None
    /\ parent[d] = p \/ IsBeneath(parent[d], p)

\* The sessions beneath p whose handle was delivered and that are not closed.
OpenBeneath(p) == {d \in handles : IsBeneath(d, p) /\ ~finish_event[d]}

\* The step enters execute() for request r.
Enters(r) == r \in Reqs /\ execs'[r] > execs[r]

\* C18: execute() is entered for no request of a session while a session
\* nested beneath it, at any depth, is open.
C18_RecursiveExclusivity ==
    [][\A r \in ReqIds : Enters(r) => OpenBeneath(reqs[r].sid) = {}]_vars

\* C19: once close() has returned on a session (its _finish_event is set),
\* execute() is entered for none of its requests and no worker is started
\* for it.
C19_NothingAfterClose ==
    [][/\ \A r \in ReqIds : Enters(r) => ~finish_event[reqs[r].sid]
       /\ Len(workers') > Len(workers) => ~finish_event[workers'[Len(workers')].sid]]_vars

\* C20: the text the refills of a session took from the input stream is what
\* its reads returned, in order, followed by its buffer, and a closed session
\* holds no text: every character taken from the stream was returned by one
\* read or is in the buffer of a session that is not closed.
C20_NoInputLost ==
    \A s \in SessionIds :
        /\ taken[s] = Returned(s, Len(reqs)) \o buffer[s]
        /\ finish_event[s] => buffer[s] = <<>>

====
